---------------------------- MODULE Spec2Model ----------------------------
(***************************************************************************)
(* Model of src/sort/mod.rs: bubble_sort, insertion_sort and merge_sort.   *)
(*                                                                         *)
(* The three routines are run one after the other on copies of the same    *)
(* input, as the test module does.  Each routine is a small step machine:  *)
(* one action per loop iteration / statement group of the Rust source.     *)
(* Indices keep the source's 0-based values; a TLA+ sequence is 1-based,   *)
(* so list[i] of the source is list[i + 1] here.                           *)
(*                                                                         *)
(* An element is a record [key, tag].  Comparisons look at the key only    *)
(* (the PartialOrd of T); the tag is the element's position in the input   *)
(* and is what lets permutation and stability be stated.                   *)
(***************************************************************************)
EXTENDS Integers, Sequences, FiniteSets

\* Bounds of the model.
MaxLen == 4
MaxKey == 3

\* The key that is incomparable with every key, itself included (as the
\* float NaN under PartialOrd).  Ordinary keys are 1..MaxKey.
NaN == 0

\* usize::MAX, scaled to the integers of the model checker.  Only used as
\* the value len - 1 wraps to when len = 0 in a build without overflow
\* checks; all that matters is that it exceeds every index.
UsizeMax == 2147483647

VARIABLES
    input,      \* the sequence handed to each routine (never changes)
    \* bubble_sort
    blist,      \* list
    bpc,        \* "loop" | "for" | "done" | "panic"
    bi,         \* i of the for loop
    bbound,     \* value of list.len() - 1 for the current pass
    bswapped,   \* swapped
    bpass,      \* number of passes started
    bcmp,       \* number of evaluations of list[i] > list[i + 1]
    bswaps,     \* number of calls of swap
    \* insertion_sort
    ilist,      \* list
    ipc,        \* "for" | "while" | "done"
    ii,         \* i
    ij,         \* j
    icmp,       \* number of evaluations of list[j - 1] > list[j]
    iswaps,     \* number of calls of swap
    \* merge_sort
    mitems,     \* items of the outermost call
    mstack,     \* call stack, innermost call last
    mpc,        \* "run" | "done" | "panic"
    mcmp        \* number of evaluations of l < r

bvars == <<blist, bpc, bi, bbound, bswapped, bpass, bcmp, bswaps>>
ivars == <<ilist, ipc, ii, ij, icmp, iswaps>>
mvars == <<mitems, mstack, mpc, mcmp>>
vars == <<input, bvars, ivars, mvars>>

----------------------------------------------------------------------------
\* PartialOrd on the elements: by key, NaN incomparable.

Comparable(a, b) == a.key # NaN /\ b.key # NaN

Gt(a, b) == Comparable(a, b) /\ a.key > b.key

Lt(a, b) == Comparable(a, b) /\ a.key < b.key

Le(a, b) == Comparable(a, b) /\ a.key <= b.key

Ge(a, b) == Comparable(a, b) /\ a.key >= b.key

\* slice::swap(i, j), 0-based i and j.
SwapOverwrite(list, i, j) == [list EXCEPT ![i + 1] = list[j + 1]]

Swap(list, i, j) ==
    [list EXCEPT ![i + 1] = list[j + 1], ![j + 1] = list[i + 1]]

\* usize subtraction: overflow check of a debug build, wrap of a release build.
SubOverflows(a, b) == a < b

WrappingSub(a, b) == IF a >= b THEN a - b ELSE UsizeMax - (b - a) + 1

----------------------------------------------------------------------------
\* The harness: the routines are called one after the other.

BubbleOver == bpc \in {"done", "panic"}

InsertionOver == ipc = "done"

MergeOver == mpc \in {"done", "panic"}

Turn ==
    IF ~BubbleOver THEN "bubble"
    ELSE IF ~InsertionOver THEN "insertion"
    ELSE IF ~MergeOver THEN "merge"
    ELSE "end"

----------------------------------------------------------------------------
\* Initial states.

Tagged(ks) == [i \in 1..Len(ks) |-> [key |-> ks[i], tag |-> i]]

KeySeqs(K) == UNION {[1..n -> K] : n \in 0..MaxLen}

Frame(lo, len) ==
    [lo |-> lo, len |-> len, pc |-> "entry", result |-> <<>>, l |-> 0, r |-> 0]

InitWith(K) ==
    /\ \E ks \in KeySeqs(K) : input = Tagged(ks)
    /\ blist = input /\ bpc = "loop" /\ bi = 0 /\ bbound = 0
    /\ bswapped = FALSE /\ bpass = 0 /\ bcmp = 0 /\ bswaps = 0
    /\ ilist = input /\ ipc = "for" /\ ii = 1 /\ ij = 0
    /\ icmp = 0 /\ iswaps = 0
    /\ mitems = input /\ mstack = <<Frame(0, Len(input))>> /\ mpc = "run"
    /\ mcmp = 0

\* Totally ordered keys.
Init == InitWith(1..MaxKey)

\* Partially ordered keys: NaN may occur.
InitPartial == InitWith({NaN} \cup (1..MaxKey))

----------------------------------------------------------------------------
\* bubble_sort

\* The test of line 20.
BubbleShouldSwap(a, b) == Gt(a, b)

\* Lines 17-19: top of `loop`, swapped = false, the range 0..list.len() - 1.
\* With len = 0 this is the build without overflow checks, where the
\* subtraction wraps; BubbleOverflowPanic is the build with them.
BubblePass ==
    /\ Turn = "bubble" /\ bpc = "loop"
    /\ bswapped' = FALSE
    /\ bbound' = WrappingSub(Len(blist), 1)
    /\ bi' = 0
    /\ bpass' = bpass + 1
    /\ bpc' = "for"
    /\ UNCHANGED <<blist, bcmp, bswaps>>
    /\ UNCHANGED <<input, ivars, mvars>>

\* Line 19 in a build with overflow checks: list.len() - 1 with len = 0.
BubbleOverflowPanic ==
    /\ Turn = "bubble" /\ bpc = "loop"
    /\ SubOverflows(Len(blist), 1)
    /\ bpc' = "panic"
    /\ UNCHANGED <<blist, bi, bbound, bswapped, bpass, bcmp, bswaps>>
    /\ UNCHANGED <<input, ivars, mvars>>

\* Line 20: list[i] or list[i + 1] out of range.
BubbleIndexPanic ==
    /\ Turn = "bubble" /\ bpc = "for"
    /\ bi < bbound
    /\ bi + 1 >= Len(blist)
    /\ bpc' = "panic"
    /\ UNCHANGED <<blist, bi, bbound, bswapped, bpass, bcmp, bswaps>>
    /\ UNCHANGED <<input, ivars, mvars>>

\* Variant of the iteration that leaves the pass at the first swap.
BubbleCompareBreak ==
    /\ Turn = "bubble" /\ bpc = "for"
    /\ bi < bbound
    /\ bi + 1 < Len(blist)
    /\ bcmp' = bcmp + 1
    /\ IF BubbleShouldSwap(blist[bi + 1], blist[bi + 2])
       THEN /\ blist' = Swap(blist, bi, bi + 1)
            /\ bswapped' = TRUE
            /\ bswaps' = bswaps + 1
            /\ bi' = bbound
       ELSE /\ UNCHANGED <<blist, bswapped, bswaps>>
            /\ bi' = bi + 1
    /\ UNCHANGED <<bpc, bbound, bpass>>
    /\ UNCHANGED <<input, ivars, mvars>>

\* Lines 19-24: one iteration of the for loop.
BubbleCompare ==
    /\ Turn = "bubble" /\ bpc = "for"
    /\ bi < bbound
    /\ bi + 1 < Len(blist)
    /\ bcmp' = bcmp + 1
    /\ IF BubbleShouldSwap(blist[bi + 1], blist[bi + 2])
       THEN /\ blist' = Swap(blist, bi, bi + 1)
            /\ bswapped' = TRUE
            /\ bswaps' = bswaps + 1
       ELSE UNCHANGED <<blist, bswapped, bswaps>>
    /\ bi' = bi + 1
    /\ UNCHANGED <<bpc, bbound, bpass>>
    /\ UNCHANGED <<input, ivars, mvars>>

\* Lines 27-29: the for loop is exhausted; break unless a swap occurred.
BubblePassEnd ==
    /\ Turn = "bubble" /\ bpc = "for"
    /\ bi >= bbound
    /\ bpc' = IF ~bswapped THEN "done" ELSE "loop"
    /\ UNCHANGED <<blist, bi, bbound, bswapped, bpass, bcmp, bswaps>>
    /\ UNCHANGED <<input, ivars, mvars>>


----------------------------------------------------------------------------
\* insertion_sort

\* The element test of line 93.
InsertionShouldShiftOnTie(a, b) == Ge(a, b)

InsertionShouldShiftReversed(a, b) == Lt(a, b)

InsertionShouldShift(a, b) == Gt(a, b)

\* Lines 85-86: next i of 1..list.len(), j = i; or the range is exhausted.
InsertionFor ==
    /\ Turn = "insertion" /\ ipc = "for"
    /\ IF ii < Len(ilist)
       THEN ij' = ii /\ ipc' = "while"
       ELSE ij' = ij /\ ipc' = "done"
    /\ UNCHANGED <<ilist, ii, icmp, iswaps>>
    /\ UNCHANGED <<input, bvars, mvars>>

\* Lines 93-96: j > 0 holds, the elements are compared, swap and j -= 1 or
\* leave the while loop.
InsertionWhile ==
    /\ Turn = "insertion" /\ ipc = "while"
    /\ ij > 0
    /\ icmp' = icmp + 1
    /\ IF InsertionShouldShift(ilist[ij], ilist[ij + 1])
       THEN /\ ilist' = Swap(ilist, ij - 1, ij)
            /\ iswaps' = iswaps + 1
            /\ ij' = ij - 1
            /\ UNCHANGED <<ii, ipc>>
       ELSE /\ ii' = ii + 1
            /\ ipc' = "for"
            /\ UNCHANGED <<ilist, iswaps, ij>>
    /\ UNCHANGED <<input, bvars, mvars>>

\* Line 93: j > 0 fails, nothing is compared.
InsertionWhileStart ==
    /\ Turn = "insertion" /\ ipc = "while"
    /\ ij = 0
    /\ ii' = ii + 1
    /\ ipc' = "for"
    /\ UNCHANGED <<ilist, ij, icmp, iswaps>>
    /\ UNCHANGED <<input, bvars, mvars>>


----------------------------------------------------------------------------
\* merge_sort.  A frame is one call: items of the call is the range
\* [lo, lo + len) of mitems; pc is the statement the call executes next.

Top == mstack[Len(mstack)]

SetTop(f) == [mstack EXCEPT ![Len(mstack)] = f]

Pop == SubSeq(mstack, 1, Len(mstack) - 1)

\* Line 111: split_at_mut(len / 2).
Mid(f) == f.len \div 2

LeftLen(f) == Mid(f)

RightLen(f) == f.len - Mid(f)

\* Element k (0-based) of left and of right.
LeftAt(f, k) == mitems[f.lo + k + 1]

RightAt(f, k) == mitems[f.lo + Mid(f) + k + 1]

\* The test of line 121.
MergeTakeLeftOnTie(l, r) == Le(l, r)

MergeTakeLeftReversed(l, r) == Gt(l, r)

MergeTakeLeft(l, r) == Lt(l, r)

MergeRunning == Turn = "merge" /\ mstack # <<>>

\* Lines 102-107: the base case returns.
MergeBase ==
    /\ MergeRunning /\ Top.pc = "entry"
    /\ Top.len < 2
    /\ mstack' = Pop
    /\ mpc' = IF Len(mstack) = 1 THEN "done" ELSE "run"
    /\ UNCHANGED <<mitems, mcmp>>
    /\ UNCHANGED <<input, bvars, ivars>>

\* Lines 109-111: result = Vec::with_capacity(len), split.
MergeSplit ==
    /\ MergeRunning /\ Top.pc = "entry"
    /\ Top.len >= 2
    /\ mstack' = SetTop([Top EXCEPT !.pc = "left", !.result = <<>>])
    /\ UNCHANGED <<mitems, mpc, mcmp>>
    /\ UNCHANGED <<input, bvars, ivars>>

\* Line 113: merge_sort(left).
MergeCallLeft ==
    /\ MergeRunning /\ Top.pc = "left"
    /\ mstack' = Append(SetTop([Top EXCEPT !.pc = "right"]),
                        Frame(Top.lo, LeftLen(Top)))
    /\ UNCHANGED <<mitems, mpc, mcmp>>
    /\ UNCHANGED <<input, bvars, ivars>>

\* Lines 114-117: merge_sort(right); on return the two iterators start.
MergeCallRight ==
    /\ MergeRunning /\ Top.pc = "right"
    /\ mstack' = Append(SetTop([Top EXCEPT !.pc = "merge", !.l = 0, !.r = 0]),
                        Frame(Top.lo + Mid(Top), RightLen(Top)))
    /\ UNCHANGED <<mitems, mpc, mcmp>>
    /\ UNCHANGED <<input, bvars, ivars>>

\* Lines 120-126: both peeks are Some; one comparison, one push.
MergeLoop ==
    /\ MergeRunning /\ Top.pc = "merge"
    /\ Top.l < LeftLen(Top) /\ Top.r < RightLen(Top)
    /\ mcmp' = mcmp + 1
    /\ mstack' = SetTop(
         IF MergeTakeLeft(LeftAt(Top, Top.l), RightAt(Top, Top.r))
         THEN [Top EXCEPT !.result = Append(@, LeftAt(Top, Top.l)),
                          !.l = @ + 1]
         ELSE [Top EXCEPT !.result = Append(@, RightAt(Top, Top.r)),
                          !.r = @ + 1])
    /\ UNCHANGED <<mitems, mpc>>
    /\ UNCHANGED <<input, bvars, ivars>>

\* Line 120: one peek is None, the while loop ends.
MergeLoopEnd ==
    /\ MergeRunning /\ Top.pc = "merge"
    /\ ~(Top.l < LeftLen(Top) /\ Top.r < RightLen(Top))
    /\ mstack' = SetTop([Top EXCEPT !.pc = "drainl"])
    /\ UNCHANGED <<mitems, mpc, mcmp>>
    /\ UNCHANGED <<input, bvars, ivars>>

\* Variant of the left drain that pushes nothing.
MergeDrainLeftSkip ==
    /\ MergeRunning /\ Top.pc = "drainl"
    /\ mstack' = SetTop([Top EXCEPT !.pc = "drainr"])
    /\ UNCHANGED <<mitems, mpc, mcmp>>
    /\ UNCHANGED <<input, bvars, ivars>>

\* Lines 130-132: for l in l_iter, one iteration or the end of the loop.
MergeDrainLeft ==
    /\ MergeRunning /\ Top.pc = "drainl"
    /\ mstack' = SetTop(
         IF Top.l < LeftLen(Top)
         THEN [Top EXCEPT !.result = Append(@, LeftAt(Top, Top.l)),
                          !.l = @ + 1]
         ELSE [Top EXCEPT !.pc = "drainr"])
    /\ UNCHANGED <<mitems, mpc, mcmp>>
    /\ UNCHANGED <<input, bvars, ivars>>

\* Lines 133-135: for r in r_iter, one iteration or the end of the loop.
MergeDrainRight ==
    /\ MergeRunning /\ Top.pc = "drainr"
    /\ mstack' = SetTop(
         IF Top.r < RightLen(Top)
         THEN [Top EXCEPT !.result = Append(@, RightAt(Top, Top.r)),
                          !.r = @ + 1]
         ELSE [Top EXCEPT !.pc = "assert"])
    /\ UNCHANGED <<mitems, mpc, mcmp>>
    /\ UNCHANGED <<input, bvars, ivars>>

\* Line 137: assert_eq!(len, result.len()); a failed assertion panics.
MergeAssert ==
    /\ MergeRunning /\ Top.pc = "assert"
    /\ IF Top.len = Len(Top.result)
       THEN /\ mstack' = SetTop([Top EXCEPT !.pc = "copy"])
            /\ mpc' = mpc
       ELSE /\ mstack' = mstack
            /\ mpc' = "panic"
    /\ UNCHANGED <<mitems, mcmp>>
    /\ UNCHANGED <<input, bvars, ivars>>

\* Line 140: items[..len].copy_from_slice(&result[..len]), then return.
MergeCopy ==
    /\ MergeRunning /\ Top.pc = "copy"
    /\ mitems' = [k \in 1..Len(mitems) |->
                    IF k > Top.lo /\ k <= Top.lo + Top.len
                    THEN Top.result[k - Top.lo]
                    ELSE mitems[k]]
    /\ mstack' = Pop
    /\ mpc' = IF Len(mstack) = 1 THEN "done" ELSE "run"
    /\ UNCHANGED mcmp
    /\ UNCHANGED <<input, bvars, ivars>>


----------------------------------------------------------------------------
\* Specifications.

Next ==
    \/ BubblePass
    \/ BubbleOverflowPanic
    \/ BubbleIndexPanic
    \/ BubbleCompare
    \/ BubblePassEnd
    \/ InsertionFor
    \/ InsertionWhile
    \/ InsertionWhileStart
    \/ MergeBase
    \/ MergeSplit
    \/ MergeCallLeft
    \/ MergeCallRight
    \/ MergeLoop
    \/ MergeLoopEnd
    \/ MergeDrainLeft
    \/ MergeDrainRight
    \/ MergeAssert
    \/ MergeCopy

\* Inputs over a total order.
Spec == Init /\ [][Next]_vars

\* Inputs over a partial order.
SpecPartial == InitPartial /\ [][Next]_vars

\* Every call runs to completion: single-threaded, no suspension points.
LiveSpec == Init /\ [][Next]_vars /\ WF_vars(Next)

----------------------------------------------------------------------------
\* Vocabulary of the properties.

Returned == bpc = "done" /\ ipc = "done" /\ mpc = "done"

Sorted(s) == \A i \in 1..(Len(s) - 1) : Le(s[i], s[i + 1])

NoDescent(s) == \A i \in 1..(Len(s) - 1) : ~Gt(s[i], s[i + 1])

Count(e, s) == Cardinality({i \in DOMAIN s : s[i] = e})

Range(s) == {s[i] : i \in DOMAIN s}

IsPermutation(s, t) ==
    /\ Len(s) = Len(t)
    /\ \A e \in Range(s) \cup Range(t) : Count(e, s) = Count(e, t)

Keys(s) == [i \in DOMAIN s |-> s[i].key]

HasTie(s) == \E i, j \in DOMAIN s : i < j /\ s[i].key = s[j].key

HasNaN(s) == \E i \in DOMAIN s : s[i].key = NaN

\* Equal keys keep their input order (tags ascending).
Stable(s) ==
    \A i, j \in DOMAIN s : (i < j /\ s[i].key = s[j].key) => s[i].tag < s[j].tag

\* Equal keys come out in the opposite of their input order.
TiesReversed(s) ==
    \A i, j \in DOMAIN s : (i < j /\ s[i].key = s[j].key) => s[i].tag > s[j].tag

\* The range of mitems that is `items` of call f.
ItemsOf(f) == SubSeq(mitems, f.lo + 1, f.lo + f.len)

----------------------------------------------------------------------------
\* C1: over a totally ordered element type, whenever bubble_sort,
\* insertion_sort or merge_sort has returned, its sequence is in
\* non-decreasing order: every adjacent pair satisfies out[i] <= out[i+1].
C1_SortedOnReturn ==
    /\ bpc = "done" => Sorted(blist)
    /\ ipc = "done" => Sorted(ilist)
    /\ mpc = "done" => Sorted(mitems)

C1_Witness ==
    /\ Returned
    /\ Len(input) >= 3
    /\ ~Sorted(input)

\* C2: whenever a routine has returned, its sequence is a permutation of the
\* input (same length, same multiset); in merge_sort the buffer that is
\* copied back at any recursion level is a permutation of that call's items.
C2_PermutationOnReturn ==
    /\ bpc = "done" => IsPermutation(blist, input)
    /\ ipc = "done" => IsPermutation(ilist, input)
    /\ mpc = "done" => IsPermutation(mitems, input)
    /\ (mstack # <<>> /\ Top.pc = "copy")
          => IsPermutation(Top.result, ItemsOf(Top))

C2_Witness ==
    /\ Returned
    /\ Len(input) >= 3
    /\ blist # input /\ ilist # input /\ mitems # input

\* C3: on the empty and on a one-element sequence every routine returns
\* without a panic, compares nothing and leaves the sequence unchanged.
C3_EmptySingletonNoFailure ==
    Len(input) <= 1 =>
        /\ bpc # "panic" /\ mpc # "panic"
        /\ bcmp = 0 /\ icmp = 0 /\ mcmp = 0
        /\ blist = input /\ ilist = input /\ mitems = input

\* C4: bubble_sort and insertion_sort are stable: when they have returned,
\* elements with equal keys are in their input order.
C4_BubbleInsertionStable ==
    /\ bpc = "done" => Stable(blist)
    /\ ipc = "done" => Stable(ilist)

C4_Witness ==
    /\ bpc = "done" /\ ipc = "done"
    /\ HasTie(input)
    /\ blist # input /\ ilist # input

\* C5: for any input over a total order, once the three calls are over all
\* three have produced a final sequence and the three key sequences agree.
C5_AllProduceSameKeys ==
    Turn = "end" =>
        /\ Returned
        /\ Keys(blist) = Keys(ilist)
        /\ Keys(ilist) = Keys(mitems)

\* C6 as stated: with a partial order too, after a routine has returned
\* every adjacent pair satisfies out[i] <= out[i+1].
C6_PartialSortedOnReturn ==
    \A i \in 1..(Len(input) - 1) :
        /\ bpc = "done" => Le(blist[i], blist[i + 1])
        /\ ipc = "done" => Le(ilist[i], ilist[i + 1])
        /\ mpc = "done" => Le(mitems[i], mitems[i + 1])

\* C6 amended: with a partial order, after a routine has returned no adjacent
\* pair is strictly descending: out[i] > out[i+1] is false for every i, so
\* every adjacent pair that is comparable satisfies out[i] <= out[i+1].
C6_NoDescentOnReturn ==
    /\ bpc = "done" => NoDescent(blist)
    /\ ipc = "done" => NoDescent(ilist)
    /\ mpc = "done" => NoDescent(mitems)

C6_Witness ==
    /\ Returned
    /\ HasNaN(input)
    /\ ~NoDescent(input)
    /\ blist # input /\ ilist # input /\ mitems # input

C8_BubbleTerminates ==
    /\ [](Len(input) >= 1 =>
            /\ bpc # "panic"
            /\ bpass <= Len(input)
            /\ bpc = "loop" => (bpass = 0 \/ bswapped)
            /\ bpc = "done" => (~bswapped /\ bcmp = bpass * (Len(input) - 1)))
    /\ (Len(input) >= 1) ~> (bpc = "done")

C8_Witness ==
    /\ bpc = "done"
    /\ Len(input) >= 3
    /\ bpass = Len(input)

\* C9: the assertion of merge_sort never fails: at every recursion level,
\* when the merge loop and both drains are over the buffer holds exactly len
\* elements, so the copy back is in range.
C9_MergeAssertHolds ==
    /\ mpc # "panic"
    /\ (mstack # <<>> /\ Top.pc \in {"assert", "copy"})
          => Len(Top.result) = Top.len

C9_Witness ==
    /\ Len(mstack) >= 2
    /\ Top.pc = "assert"
    /\ Top.len >= 2
    /\ Top.l = LeftLen(Top) /\ Top.r = RightLen(Top)

\* C10: on every input of length >= 2, insertion_sort has made fewer
\* comparisons and fewer swaps than bubble_sort when both have returned.
C10_InsertionFewer ==
    (bpc = "done" /\ ipc = "done" /\ Len(input) >= 2) =>
        /\ icmp < bcmp
        /\ iswaps < bswaps

=============================================================================
